---------------------------- MODULE Spec2Model ----------------------------
(***************************************************************************)
(* DoRA embedding layers of keras_hub/src/layers/modeling/dora_embeddings.py *)
(* as a state machine: layer objects, the Keras variables they own, and     *)
(* one action per method.                                                   *)
(*                                                                          *)
(* Numbers.  The stored matrices W0 (embeddings) and B (lora_b) hold        *)
(* integers counted in units of 5e-9, A (lora_a) holds plain integers, so   *)
(* W0 + (A @ B) * scaling is a matrix of fractions of that unit.  Square    *)
(* roots are kept exact: a real number is a record                          *)
(*     [s |-> sign, n |-> numerator, d |-> denominator, u |-> scale]        *)
(* that denotes  s * sqrt(n / d) * (5e-9)^u.  The floor 1e-8 of the column  *)
(* norms is therefore EpsUnits = 2 units, and the magnitude 1.0 of the      *)
(* "ones" initializer is [s |-> 1, n |-> 1, d |-> 1, u |-> 0].              *)
(***************************************************************************)
EXTENDS Integers, Sequences, FiniteSets, TLC

(***************************************************************************)
(* Bounds of the model.                                                     *)
(***************************************************************************)
MaxRows == 2
MaxCols == 2
MaxRank == 2

\* 1e-8 (the argument of ops.maximum) in units of 5e-9
EpsUnits == 2

\* 1.0 in units of 5e-9
UnitsPerOne == 200000000

AlphaVals == {1, 2}
Seeds == {0, 1, 2}

(***************************************************************************)
(* Integer helpers.                                                         *)
(***************************************************************************)
Abs(x) == IF x < 0 THEN -x ELSE x

Sgn(x) == IF x < 0 THEN -1 ELSE IF x = 0 THEN 0 ELSE 1

RECURSIVE GCD(_, _)
GCD(a, b) == IF b = 0 THEN a ELSE GCD(b, a % b)

RECURSIVE SumTo(_, _)
\* f[1] + ... + f[k]
SumTo(f, k) == IF k = 0 THEN 0 ELSE f[k] + SumTo(f, k - 1)

(***************************************************************************)
(* Exact reals: signed square roots of fractions at one of two scales.      *)
(***************************************************************************)
RZero == [s |-> 0, n |-> 0, d |-> 1, u |-> 0]

RNorm(s, n, d, u) ==
    IF s = 0 \/ n = 0 THEN RZero
    ELSE LET g == GCD(n, d) IN [s |-> s, n |-> n \div g, d |-> d \div g, u |-> u]

\* the fraction p / q (q > 0) at scale u
RFrac(p, q, u) == RNorm(Sgn(p), p * p, q * q, u)

ROne == RFrac(1, 1, 0)

REps == RFrac(EpsUnits, 1, 1)

RMul(a, b) == RNorm(a.s * b.s, a.n * b.n, a.d * b.d, a.u + b.u)

\* a / b for b # 0
RDiv(a, b) == RNorm(a.s * b.s, a.n * b.d, a.d * b.n, a.u - b.u)

\* |a| <= |b|; a nonzero value at the 5e-9 scale is below any at scale 1
RAbsLeq(a, b) ==
    IF a.s = 0 THEN TRUE
    ELSE IF b.s = 0 THEN FALSE
    ELSE IF a.u # b.u THEN a.u > b.u
    ELSE a.n * b.d <= b.n * a.d

\* ops.maximum on two non-negative reals
RMax(a, b) == IF RAbsLeq(a, b) THEN b ELSE a


(***************************************************************************)
(* Tensors.  A matrix is a sequence of rows, a row a sequence of entries.   *)
(***************************************************************************)
Shape(M) == <<Len(M), Len(M[1])>>

Zeros(r, c) == [i \in 1..r |-> [j \in 1..c |-> 0]]

\* np.concatenate([X, Y], axis=0)
Concat(X, Y) == X \o Y

\* M[:r]
Prefix(M, r) == SubSeq(M, 1, r)

\* ops.matmul
MatMul(X, Y) ==
    [i \in 1..Len(X) |->
        [j \in 1..Len(Y[1]) |->
            SumTo([k \in 1..Len(Y) |-> X[i][k] * Y[k][j]], Len(Y))]]

\* alpha / rank as a reduced fraction (rank # 0)
Scaling(alpha, rank) ==
    LET g == GCD(Abs(alpha), Abs(rank))
        sg == Sgn(rank)
    IN  [num |-> sg * (alpha \div g), den |-> sg * (rank \div g)]

\* ops.matmul(lora_a, lora_b) * scaling: the matrix mat / den
LoraAdaptation(A, B, scaling) ==
    LET ab == MatMul(A, B)
    IN  [mat |-> [i \in 1..Len(A) |->
                     [j \in 1..Len(B[1]) |-> scaling.num * ab[i][j]]],
         den |-> scaling.den]

\* embeddings + lora_adaptation, again as mat / den
CombinedEmbeddings(W0, lora) ==
    [mat |-> [i \in 1..Len(W0) |->
                 [j \in 1..Len(W0[1]) |-> lora.den * W0[i][j] + lora.mat[i][j]]],
     den |-> lora.den]

\* sum of the squares down column j of an integer matrix
ColSumSq(M, j) == SumTo([i \in 1..Len(M) |-> M[i][j] * M[i][j]], Len(M))

\* the sum of the squares of every entry of an integer matrix
RECURSIVE AllSumSq(_, _)
AllSumSq(M, j) == IF j = 0 THEN 0 ELSE ColSumSq(M, j) + AllSumSq(M, j - 1)

\* a faulty variant of RawColumnNorms: one norm over the whole matrix (axis=None)
RawGlobalNorms(comb) ==
    [j \in 1..Len(comb.mat[1]) |->
        RNorm(1, AllSumSq(comb.mat, Len(comb.mat[1])), comb.den * comb.den, 1)]

\* ops.sqrt(ops.sum(ops.square(combined), axis=0, keepdims=True))
RawColumnNorms(comb) ==
    [j \in 1..Len(comb.mat[1]) |->
        RNorm(1, ColSumSq(comb.mat, j), comb.den * comb.den, 1)]

\* a faulty variant of ColumnNorms: the norms used as they are
ColumnNormsUnfloored(comb) == RawColumnNorms(comb)

\* ops.maximum(column_norms, 1e-8)
ColumnNorms(comb) ==
    LET column_norms == RawColumnNorms(comb)
    IN  [j \in 1..Len(comb.mat[1]) |-> RMax(column_norms[j], REps)]

\* a faulty variant of NormalizedEmbeddings: the division by the norms left out
UnnormalizedEmbeddings(comb) ==
    [i \in 1..Len(comb.mat) |->
        [j \in 1..Len(comb.mat[1]) |-> RFrac(comb.mat[i][j], comb.den, 1)]]

\* combined_embeddings / column_norms
NormalizedEmbeddings(comb) ==
    LET column_norms == ColumnNorms(comb)
    IN  [i \in 1..Len(comb.mat) |->
            [j \in 1..Len(comb.mat[1]) |->
                RDiv(RFrac(comb.mat[i][j], comb.den, 1), column_norms[j])]]

\* a faulty variant of DoraEmbeddings: the magnitude added instead of multiplied in
\* wherever the direction is zero
DoraEmbeddingsAdded(W0, A, B, m, scaling) ==
    LET comb == CombinedEmbeddings(W0, LoraAdaptation(A, B, scaling))
        nrm  == NormalizedEmbeddings(comb)
    IN  [i \in 1..Len(W0) |->
            [j \in 1..Len(W0[1]) |->
                IF m[j] = RZero THEN nrm[i][j] ELSE RMul(nrm[i][j], m[j])]]

\* normalized_embeddings * ops.expand_dims(magnitude, axis=0)
DoraEmbeddings(W0, A, B, m, scaling) ==
    LET comb == CombinedEmbeddings(W0, LoraAdaptation(A, B, scaling))
        nrm  == NormalizedEmbeddings(comb)
    IN  [i \in 1..Len(W0) |-> [j \in 1..Len(W0[1]) |-> RMul(nrm[i][j], m[j])]]

\* a faulty variant of LinalgNorm: the norms floored like those of the forward pass
LinalgNormClamped(P) ==
    [j \in 1..Len(P[1]) |-> RMax(RNorm(1, ColSumSq(P, j), 1, 1), REps)]

\* np.linalg.norm(pretrained_embeddings, axis=0)
LinalgNorm(P) == [j \in 1..Len(P[1]) |-> RNorm(1, ColSumSq(P, j), 1, 1)]

\* a stored matrix entry as a real
RealOf(M) == [i \in 1..Len(M) |-> [j \in 1..Len(M[1]) |-> RFrac(M[i][j], 1, 1)]]

\* ops.take(M, inputs, axis=0) with 0-based indices
Take(M, inputs) == [p \in 1..Len(inputs) |-> M[inputs[p] + 1]]

\* An input tensor is a record of its dtype and its data; the data of a
\* float tensor are counted in halves, so that 3 stands for 1.5.
IntDtypes == {"int32", "int64"}

\* ops.cast(x, "int32") of one float: the fraction is dropped
TruncHalves(d) == Sgn(d) * (Abs(d) \div 2)

\* call(): the indices looked up, cast to int32 unless int32 or int64
Int32Of(inputs) ==
    IF inputs.dtype \in IntDtypes THEN inputs.data
    ELSE [p \in 1..Len(inputs.data) |-> TruncHalves(inputs.data[p])]

(***************************************************************************)
(* Sample tensors: what the random initializers, the caller and the         *)
(* optimizer may supply.                                                    *)
(***************************************************************************)
Entry(s, i, j) ==
    CASE s = 0 -> IF j > 1 /\ i = 1 THEN 1 ELSE 0
      [] s = 1 -> ((i + 2 * j) % 5) - 2
      [] OTHER -> IF (i + j + s) % 2 = 0 THEN 3 ELSE -3

GenMat(s, r, c) == [i \in 1..r |-> [j \in 1..c |-> Entry(s, i, j)]]

GenA(s, r, k) == [i \in 1..r |-> [j \in 1..k |-> ((s + i + j) % 3) - 1]]

GenMag(s, c) ==
    [j \in 1..c |->
        CASE s = 0 -> RZero
          [] s = 1 -> RFrac(IF j % 2 = 1 THEN -1 ELSE 2, 1, 0)
          [] OTHER -> RFrac(1 + (j % 2), 1, 0)]


(***************************************************************************)
(* State.                                                                   *)
(*   layers : the layer objects that exist, by slot                         *)
(*   heap   : the Keras variables (add_weight) by identity; a layer holds   *)
(*            the identities of its four variables, 0 standing for None     *)
(*   res    : the last operation: what it returned or raised, and, when it  *)
(*            returned, what it had been given                              *)
(***************************************************************************)
VARIABLES layers, heap, res

vars == <<layers, heap, res>>

MaxVocab == 3

\* the slots for layer objects and for variables: fixed by the initial state
LayerIds == DOMAIN layers
TensorIds == DOMAIN heap

Null == << >>

NoLayer ==
    [kind |-> "none", input_dim |-> 0, output_dim |-> 0, rank |-> 0,
     alpha |-> 0, scaling |-> [num |-> 0, den |-> 1],
     magnitude_initializer |-> "ones", mask_zero |-> FALSE, built |-> FALSE,
     embeddings |-> 0, lora_a |-> 0, lora_b |-> 0, magnitude |-> 0,
     trainable_weights |-> {}, non_trainable_weights |-> {}]

NoArgs == << >>

Result(op, l, out, err, args, val) ==
    [op |-> op, layer |-> l, out |-> out, err |-> err, args |-> args, val |-> val]

Exists(l) == layers[l].kind # "none"

FreeSlots == {l \in LayerIds : ~Exists(l)}

FreeIds(h) == {t \in TensorIds : h[t] = Null}

MinOf(S) == CHOOSE x \in S : \A y \in S : x <= y

RECURSIVE NthFree(_, _)
\* the k-th smallest member of S
NthFree(S, k) == IF k = 1 THEN MinOf(S) ELSE NthFree(S \ {MinOf(S)}, k - 1)

\* the tensors of a built layer
W0Of(h, L) == h[L.embeddings]
AOf(h, L) == h[L.lora_a]
BOf(h, L) == h[L.lora_b]
MOf(h, L) == h[L.magnitude]

TensorsOf(L) == {L.embeddings, L.lora_a, L.lora_b, L.magnitude} \ {0}

\* a faulty variant of InitError: the check of alpha left out
InitErrorNoAlpha(input_dim, output_dim, rank, alpha) ==
    IF input_dim <= 0 THEN "input_dim must be positive"
    ELSE IF output_dim <= 0 THEN "output_dim must be positive"
    ELSE IF rank <= 0 THEN "rank must be positive"
    ELSE ""

\* DoRAEmbedding.__init__: the parameter checks
InitError(input_dim, output_dim, rank, alpha) ==
    IF input_dim <= 0 THEN "input_dim must be positive"
    ELSE IF output_dim <= 0 THEN "output_dim must be positive"
    ELSE IF rank <= 0 THEN "rank must be positive"
    ELSE IF alpha <= 0 THEN "alpha must be positive"
    ELSE ""

\* DoRAEmbedding.__init__: the object it leaves behind, mask_zero at its
\* default
InitLayer(input_dim, output_dim, rank, alpha, mag) ==
    [kind |-> "embedding", input_dim |-> input_dim, output_dim |-> output_dim,
     rank |-> rank, alpha |-> alpha, scaling |-> Scaling(alpha, rank),
     magnitude_initializer |-> mag, mask_zero |-> FALSE, built |-> FALSE,
     embeddings |-> 0, lora_a |-> 0, lora_b |-> 0, magnitude |-> 0,
     trainable_weights |-> {}, non_trainable_weights |-> {}]

\* keras.initializers.get(magnitude_initializer)(shape=(c,))
MagnitudeInit(mag, c) == [j \in 1..c |-> IF mag = "ones" THEN ROne ELSE RZero]

\* build(): four add_weight calls, each a new variable; add_weight files the
\* variable under the layer's trainable or non-trainable weights
BuiltLayer(L, h) ==
    [L EXCEPT !.built = TRUE,
              !.embeddings = NthFree(FreeIds(h), 1),
              !.lora_a = NthFree(FreeIds(h), 2),
              !.lora_b = NthFree(FreeIds(h), 3),
              !.magnitude = NthFree(FreeIds(h), 4),
              !.non_trainable_weights = {NthFree(FreeIds(h), 1)},
              !.trainable_weights = {NthFree(FreeIds(h), 2), NthFree(FreeIds(h), 3),
                                     NthFree(FreeIds(h), 4)}]

\* a faulty variant of BuiltHeap: lora_b allocated with its two dimensions
\* exchanged
BuiltHeapTransposedB(L, h, W, A) ==
    LET B == BuiltLayer(L, h)
    IN  [h EXCEPT ![B.embeddings] = W,
                  ![B.lora_a] = A,
                  ![B.lora_b] = Zeros(L.output_dim, L.rank),
                  ![B.magnitude] = MagnitudeInit(L.magnitude_initializer, L.output_dim)]

\* a faulty variant of BuiltHeap: the magnitude starts as the column norms
\* of the base matrix
BuiltHeapEquivalent(L, h, W, A) ==
    LET B == BuiltLayer(L, h)
    IN  [h EXCEPT ![B.embeddings] = W,
                  ![B.lora_a] = A,
                  ![B.lora_b] = Zeros(L.rank, L.output_dim),
                  ![B.magnitude] = LinalgNorm(W)]

\* build(): the initial values of the four variables
BuiltHeap(L, h, W, A) ==
    LET B == BuiltLayer(L, h)
    IN  [h EXCEPT ![B.embeddings] = W,
                  ![B.lora_a] = A,
                  ![B.lora_b] = Zeros(L.rank, L.output_dim),
                  ![B.magnitude] = MagnitudeInit(L.magnitude_initializer, L.output_dim)]

\* _get_effective_embeddings on a built layer
EffectiveEmbeddings(h, L) ==
    DoraEmbeddings(W0Of(h, L), AOf(h, L), BOf(h, L), MOf(h, L), L.scaling)

\* a faulty variant of LoadedHeap: lora_b set back to zeros as well
LoadedHeapResettingB(h, L, P) ==
    [h EXCEPT ![L.embeddings] = P, ![L.magnitude] = LinalgNorm(P),
              ![L.lora_b] = Zeros(L.rank, L.output_dim)]

\* a faulty variant of LoadedHeap: the magnitude left as it was
LoadedHeapKeepMagnitude(h, L, P) == [h EXCEPT ![L.embeddings] = P]

\* load_pretrained_embeddings on a built layer, shapes agreeing
LoadedHeap(h, L, P) ==
    [h EXCEPT ![L.embeddings] = P, ![L.magnitude] = LinalgNorm(P)]


(***************************************************************************)
(* Arguments the callers may pass.                                          *)
(***************************************************************************)
RowArgs == 0..MaxRows
ColArgs == 0..MaxCols
RankArgs == -1..MaxRank
AlphaArgs == {-1, 0} \cup AlphaVals
MagInits == {"ones", "zeros"}

\* matrices a caller may hand over: the samples S in one shape, in every shape
Samples(S, r, c) == {GenMat(s, r, c) : s \in S}

Matrices(S) ==
    {GenMat(s, r, c) : s \in S, r \in 1..MaxRows, c \in 1..MaxCols}

(***************************************************************************)
(* DoRAEmbedding                                                            *)
(***************************************************************************)
\* DoRAEmbedding(input_dim, output_dim, rank, alpha, magnitude_initializer=mag)
New(input_dim, output_dim, rank, alpha, mag) ==
    /\ FreeSlots # {}
    /\ LET l == MinOf(FreeSlots)
           e == InitError(input_dim, output_dim, rank, alpha)
           a == <<input_dim, output_dim, rank, alpha>>
       IN  IF e # ""
           THEN /\ layers' = layers
                /\ res' = Result("new", l, 0, e, NoArgs, Null)
           ELSE /\ layers' = [layers EXCEPT
                                 ![l] = InitLayer(input_dim, output_dim, rank, alpha, mag)]
                /\ res' = Result("new", l, l, "", a, Null)
    /\ UNCHANGED heap

\* DoRAEmbedding(input_dim, output_dim, rank, alpha, mask_zero=True,
\*               magnitude_initializer=mag)
NewMasked(input_dim, output_dim, rank, alpha, mag) ==
    /\ FreeSlots # {}
    /\ LET l == MinOf(FreeSlots)
           e == InitError(input_dim, output_dim, rank, alpha)
           a == <<input_dim, output_dim, rank, alpha>>
       IN  IF e # ""
           THEN /\ layers' = layers
                /\ res' = Result("new", l, 0, e, NoArgs, Null)
           ELSE /\ layers' = [layers EXCEPT
                                 ![l] = [InitLayer(input_dim, output_dim, rank, alpha, mag)
                                            EXCEPT !.mask_zero = TRUE]]
                /\ res' = Result("new", l, l, "", a, Null)
    /\ UNCHANGED heap

\* layer.build(None); the two random initializers draw W and A
Build(l, sw, sa) ==
    /\ Exists(l)
    /\ layers[l].kind = "embedding"
    /\ ~layers[l].built
    /\ LET L == layers[l]
       IN  /\ layers' = [layers EXCEPT ![l] = BuiltLayer(L, heap)]
           /\ heap' = BuiltHeap(L, heap, GenMat(sw, L.input_dim, L.output_dim),
                                GenA(sa, L.input_dim, L.rank))
    /\ res' = Result("build", l, 0, "", NoArgs, Null)

\* a faulty variant of Load: the base matrix assigned before the shapes
\* are compared
LoadAssigningFirst(l, P) ==
    /\ Exists(l)
    /\ layers[l].kind = "embedding"
    /\ LET L == layers[l]
       IN  IF ~L.built
           THEN /\ heap' = heap
                /\ res' = Result("load", l, 0, "AttributeError", NoArgs, Null)
           ELSE IF Shape(P) # Shape(W0Of(heap, L))
           THEN /\ heap' = [heap EXCEPT ![L.embeddings] = P]
                /\ res' = Result("load", l, 0, "doesn't match expected shape", NoArgs, Null)
           ELSE /\ heap' = LoadedHeap(heap, L, P)
                /\ res' = Result("load", l, 0, "", P, Null)
    /\ UNCHANGED layers

\* layer.load_pretrained_embeddings(P)
Load(l, P) ==
    /\ Exists(l)
    /\ layers[l].kind = "embedding"
    /\ LET L == layers[l]
       IN  IF ~L.built
           THEN \* self.embeddings is None: None has no attribute shape
                /\ heap' = heap
                /\ res' = Result("load", l, 0, "AttributeError", NoArgs, Null)
           ELSE IF Shape(P) # Shape(W0Of(heap, L))
           THEN /\ heap' = heap
                /\ res' = Result("load", l, 0, "doesn't match expected shape", NoArgs, Null)
           ELSE /\ heap' = LoadedHeap(heap, L, P)
                /\ res' = Result("load", l, 0, "", P, Null)
    /\ UNCHANGED layers

\* the optimizer (or a caller) assigning the trainable variables
Assign(l, sab, sm) ==
    /\ Exists(l)
    /\ layers[l].built
    /\ LET L == layers[l]
       IN  heap' = [heap EXCEPT
                       ![L.lora_a] = GenA(sab, L.input_dim, L.rank),
                       ![L.lora_b] = GenMat(sab, L.rank, L.output_dim),
                       ![L.magnitude] = GenMag(sm, L.output_dim)]
    /\ res' = Result("assign", l, 0, "", NoArgs, Null)
    /\ UNCHANGED layers

\* what ops.matmul(None, None) raises: the backend's conversion of None to
\* a tensor fails, with a ValueError or a TypeError according to the backend
NoneOperandErrors == {"TypeError", "ValueError"}

\* layer.get_effective_embeddings(); there is no check of self.built
GetEffective(l) ==
    /\ Exists(l)
    /\ layers[l].kind = "embedding"
    /\ IF layers[l].built
       THEN res' = Result("effective", l, 0, "", NoArgs, EffectiveEmbeddings(heap, layers[l]))
       ELSE \E e \in NoneOperandErrors : res' = Result("effective", l, 0, e, NoArgs, Null)
    /\ UNCHANGED <<layers, heap>>

\* a faulty variant of Merge: the merge of plain LoRA, W0 + (A @ B) * scaling
MergeCombined(l) ==
    /\ Exists(l)
    /\ layers[l].kind = "embedding"
    /\ IF layers[l].built
       THEN res' = Result("merge", l, 0, "", NoArgs,
                         UnnormalizedEmbeddings(
                             CombinedEmbeddings(W0Of(heap, layers[l]),
                                 LoraAdaptation(AOf(heap, layers[l]), BOf(heap, layers[l]),
                                                layers[l].scaling))))
       ELSE \E e \in NoneOperandErrors : res' = Result("merge", l, 0, e, NoArgs, Null)
    /\ UNCHANGED <<layers, heap>>

\* a faulty variant of Merge: the merged matrix also written into the base
\* matrix, as a LoRA merge does
MergeInPlace(l) ==
    /\ Exists(l)
    /\ layers[l].kind = "embedding"
    /\ IF layers[l].built
       THEN /\ res' = Result("merge", l, 0, "", NoArgs, EffectiveEmbeddings(heap, layers[l]))
            /\ heap' = [heap EXCEPT ![layers[l].embeddings] =
                            CombinedEmbeddings(W0Of(heap, layers[l]),
                                LoraAdaptation(AOf(heap, layers[l]), BOf(heap, layers[l]),
                                               layers[l].scaling)).mat]
       ELSE /\ \E e \in NoneOperandErrors : res' = Result("merge", l, 0, e, NoArgs, Null)
            /\ heap' = heap
    /\ UNCHANGED layers

\* layer.merge_weights()["embeddings"]
Merge(l) ==
    /\ Exists(l)
    /\ layers[l].kind = "embedding"
    /\ IF layers[l].built
       THEN res' = Result("merge", l, 0, "", NoArgs, EffectiveEmbeddings(heap, layers[l]))
       ELSE \E e \in NoneOperandErrors : res' = Result("merge", l, 0, e, NoArgs, Null)
    /\ UNCHANGED <<layers, heap>>

\* a faulty variant of ParamCount: the frozen base matrix counted too
ParamCountWithBase(L) ==
    L.input_dim * L.output_dim + L.input_dim * L.rank + L.rank * L.output_dim
    + L.output_dim

\* count_params: from the attributes, never from the tensors
ParamCount(L) ==
    L.input_dim * L.rank + L.rank * L.output_dim + L.output_dim

\* layer.count_params()
CountParams(l) ==
    /\ Exists(l)
    /\ layers[l].kind = "embedding"
    /\ res' = Result("count_params", l, 0, "", NoArgs, ParamCount(layers[l]))
    /\ UNCHANGED <<layers, heap>>

\* layer.get_config(): the entries this model keeps
GetConfig(l) ==
    /\ Exists(l)
    /\ layers[l].kind = "embedding"
    /\ LET L == layers[l]
       IN  res' = Result("get_config", l, 0, "", NoArgs,
                        [input_dim |-> L.input_dim, output_dim |-> L.output_dim,
                         rank |-> L.rank, alpha |-> L.alpha,
                         magnitude_initializer |-> L.magnitude_initializer,
                         mask_zero |-> L.mask_zero])
    /\ UNCHANGED <<layers, heap>>

\* layer.compute_mask(inputs): None unless mask_zero
ComputeMask(l, inputs) ==
    /\ Exists(l)
    /\ layers[l].kind = "embedding"
    /\ res' = Result("compute_mask", l, 0, "", inputs,
                     IF layers[l].mask_zero
                     THEN [p \in 1..Len(inputs) |-> inputs[p] # 0]
                     ELSE Null)
    /\ UNCHANGED <<layers, heap>>

\* a faulty variant of Call: the column norms of the base matrix kept in
\* the magnitude variable
CallStoringNorms(l, inputs) ==
    /\ Exists(l)
    /\ layers[l].kind = "embedding"
    /\ layers[l].built
    /\ \A p \in 1..Len(inputs.data) :
           Int32Of(inputs)[p] >= 0 /\ Int32Of(inputs)[p] < layers[l].input_dim
    /\ res' = Result("call", l, 0, "", inputs,
                     Take(EffectiveEmbeddings(heap, layers[l]), Int32Of(inputs)))
    /\ heap' = [heap EXCEPT ![layers[l].magnitude] = LinalgNorm(W0Of(heap, layers[l]))]
    /\ UNCHANGED layers

\* a faulty variant of Call: the rows taken from the base matrix
CallOnBase(l, inputs) ==
    /\ Exists(l)
    /\ layers[l].kind = "embedding"
    /\ layers[l].built
    /\ \A p \in 1..Len(inputs.data) :
           Int32Of(inputs)[p] >= 0 /\ Int32Of(inputs)[p] < layers[l].input_dim
    /\ res' = Result("call", l, 0, "", inputs,
                     Take(RealOf(W0Of(heap, layers[l])), Int32Of(inputs)))
    /\ UNCHANGED <<layers, heap>>

\* layer(inputs), every index after the cast within [0, input_dim)
Call(l, inputs) ==
    /\ Exists(l)
    /\ layers[l].kind = "embedding"
    /\ layers[l].built
    /\ \A p \in 1..Len(inputs.data) :
           Int32Of(inputs)[p] >= 0 /\ Int32Of(inputs)[p] < layers[l].input_dim
    /\ res' = Result("call", l, 0, "", inputs,
                     Take(EffectiveEmbeddings(heap, layers[l]), Int32Of(inputs)))
    /\ UNCHANGED <<layers, heap>>


\* a faulty variant of ExpandedLayer: the new layer takes over the variable lora_b
ExpandedLayerSharing(L, h, new_vocab_size) ==
    [BuiltLayer(InitLayer(new_vocab_size, L.output_dim, L.rank, L.alpha,
                          L.magnitude_initializer), h)
        EXCEPT !.lora_b = L.lora_b]

\* a faulty variant of ExpandedLayer: the new layer constructed with the
\* default alpha of 1.0
ExpandedLayerDefaultAlpha(L, h, new_vocab_size) ==
    BuiltLayer([InitLayer(new_vocab_size, L.output_dim, L.rank, 1,
                          L.magnitude_initializer)
                   EXCEPT !.mask_zero = L.mask_zero], h)

\* expand_vocabulary: the object DoRAEmbedding(input_dim=new_vocab_size, ...)
\* after expanded_layer.build(None)
ExpandedLayer(L, h, new_vocab_size) ==
    BuiltLayer([InitLayer(new_vocab_size, L.output_dim, L.rank, L.alpha,
                          L.magnitude_initializer)
                   EXCEPT !.mask_zero = L.mask_zero], h)

\* a faulty variant of ExpandedHeap: lora_b of the new layer left as build() made it
ExpandedHeapFreshB(L, h, E, new_embeddings, new_lora_a_rows) ==
    [h EXCEPT ![E.embeddings] = Concat(W0Of(h, L), new_embeddings),
              ![E.lora_a] = Concat(AOf(h, L), new_lora_a_rows),
              ![E.lora_b] = Zeros(L.rank, L.output_dim),
              ![E.magnitude] = MOf(h, L)]

\* a faulty variant of ExpandedHeap: the new rows put before the old ones
ExpandedHeapNewFirst(L, h, E, new_embeddings, new_lora_a_rows) ==
    [h EXCEPT ![E.embeddings] = Concat(new_embeddings, W0Of(h, L)),
              ![E.lora_a] = Concat(new_lora_a_rows, AOf(h, L)),
              ![E.lora_b] = BOf(h, L),
              ![E.magnitude] = MOf(h, L)]

\* the rows of a matrix in reverse order
Reversed(M) == [i \in 1..Len(M) |-> M[Len(M) + 1 - i]]

\* a faulty variant of ExpandedHeap: the new rows of W0 in reverse order
ExpandedHeapReversed(L, h, E, new_embeddings, new_lora_a_rows) ==
    [h EXCEPT ![E.embeddings] = Concat(W0Of(h, L), Reversed(new_embeddings)),
              ![E.lora_a] = Concat(AOf(h, L), new_lora_a_rows),
              ![E.lora_b] = BOf(h, L),
              ![E.magnitude] = MOf(h, L)]

\* a faulty variant of ExpandedHeap: the magnitude of the new layer left as
\* build() made it
ExpandedHeapFreshMagnitude(L, h, E, new_embeddings, new_lora_a_rows) ==
    [h EXCEPT ![E.embeddings] = Concat(W0Of(h, L), new_embeddings),
              ![E.lora_a] = Concat(AOf(h, L), new_lora_a_rows),
              ![E.lora_b] = BOf(h, L),
              ![E.magnitude] = MagnitudeInit(L.magnitude_initializer, L.output_dim)]

\* a faulty variant of ExpandedHeap: the magnitude rescaled by the growth of
\* each column norm, so that the old rows keep their effective values
ExpandedHeapRenormalized(L, h, E, new_embeddings, new_lora_a_rows) ==
    LET old == ColumnNorms(CombinedEmbeddings(W0Of(h, L),
                   LoraAdaptation(AOf(h, L), BOf(h, L), L.scaling)))
        new == ColumnNorms(CombinedEmbeddings(Concat(W0Of(h, L), new_embeddings),
                   LoraAdaptation(Concat(AOf(h, L), new_lora_a_rows), BOf(h, L),
                                  L.scaling)))
    IN  [h EXCEPT ![E.embeddings] = Concat(W0Of(h, L), new_embeddings),
                  ![E.lora_a] = Concat(AOf(h, L), new_lora_a_rows),
                  ![E.lora_b] = BOf(h, L),
                  ![E.magnitude] = [j \in 1..L.output_dim |->
                                       RMul(MOf(h, L)[j], RDiv(new[j], old[j]))]]

\* expand_vocabulary: the four assign calls on the new layer's variables
ExpandedHeap(L, h, E, new_embeddings, new_lora_a_rows) ==
    [h EXCEPT ![E.embeddings] = Concat(W0Of(h, L), new_embeddings),
              ![E.lora_a] = Concat(AOf(h, L), new_lora_a_rows),
              ![E.lora_b] = BOf(h, L),
              ![E.magnitude] = MOf(h, L)]

\* expand_vocabulary past its checks: the new layer and its tensors
Grown(l, new_vocab_size, X, sx, sa) ==
    LET L == layers[l]
        num_new_tokens == new_vocab_size - L.input_dim
    IN  /\ FreeSlots # {}
        /\ LET n == MinOf(FreeSlots)
               E == ExpandedLayer(L, heap, new_vocab_size)
               new_embeddings ==
                   IF X = Null THEN GenMat(sx, num_new_tokens, L.output_dim)
                   ELSE X
               new_lora_a_rows == GenA(sa, num_new_tokens, L.rank)
           IN  /\ layers' = [layers EXCEPT ![n] = E]
               /\ heap' = ExpandedHeap(L, heap, E, new_embeddings, new_lora_a_rows)
               /\ res' = Result("expand", l, n, "",
                                [new_vocab_size |-> new_vocab_size,
                                 new_token_embeddings |-> X], Null)

\* a faulty variant of Expand: a target equal to the current size accepted
ExpandAcceptingEqual(l, new_vocab_size, X, sx, sa) ==
    /\ Exists(l)
    /\ layers[l].kind = "embedding"
    /\ LET L == layers[l]
       IN  IF new_vocab_size < L.input_dim
           THEN /\ UNCHANGED <<layers, heap>>
                /\ res' = Result("expand", l, 0, "must be greater than current", NoArgs, Null)
           ELSE IF ~L.built
           THEN /\ UNCHANGED <<layers, heap>>
                /\ res' = Result("expand", l, 0, "must be built before expanding", NoArgs, Null)
           ELSE IF X # Null /\ Shape(X) # <<new_vocab_size - L.input_dim, L.output_dim>>
           THEN /\ UNCHANGED <<layers, heap>>
                /\ res' = Result("expand", l, 0, "doesn't match expected shape", NoArgs, Null)
           ELSE Grown(l, new_vocab_size, X, sx, sa)

\* a faulty variant of Expand: a layer that is not built is not turned down;
\* the new layer comes back as its own build() left it
ExpandFromUnbuilt(l, new_vocab_size, X, sx, sa) ==
    /\ Exists(l)
    /\ layers[l].kind = "embedding"
    /\ LET L == layers[l]
           U == InitLayer(new_vocab_size, L.output_dim, L.rank, L.alpha,
                          L.magnitude_initializer)
       IN  IF new_vocab_size <= L.input_dim
           THEN /\ UNCHANGED <<layers, heap>>
                /\ res' = Result("expand", l, 0, "must be greater than current", NoArgs, Null)
           ELSE IF ~L.built
           THEN /\ FreeSlots # {}
                /\ layers' = [layers EXCEPT ![MinOf(FreeSlots)] = BuiltLayer(U, heap)]
                /\ heap' = BuiltHeap(U, heap, GenMat(sx, new_vocab_size, L.output_dim),
                                     GenA(sa, new_vocab_size, L.rank))
                /\ res' = Result("expand", l, MinOf(FreeSlots), "",
                                 [new_vocab_size |-> new_vocab_size,
                                  new_token_embeddings |-> X], Null)
           ELSE IF X # Null /\ Shape(X) # <<new_vocab_size - L.input_dim, L.output_dim>>
           THEN /\ UNCHANGED <<layers, heap>>
                /\ res' = Result("expand", l, 0, "doesn't match expected shape", NoArgs, Null)
           ELSE Grown(l, new_vocab_size, X, sx, sa)

\* layer.expand_vocabulary(new_vocab_size, X); X = Null stands for None, and
\* then the embeddings initializer draws the new rows (sample sx); the
\* lora_a initializer draws the new rows of A (sample sa)
Expand(l, new_vocab_size, X, sx, sa) ==
    /\ Exists(l)
    /\ layers[l].kind = "embedding"
    /\ LET L == layers[l]
           num_new_tokens == new_vocab_size - L.input_dim
           a == [new_vocab_size |-> new_vocab_size, new_token_embeddings |-> X]
       IN  IF new_vocab_size <= L.input_dim
           THEN /\ UNCHANGED <<layers, heap>>
                /\ res' = Result("expand", l, 0, "must be greater than current", NoArgs, Null)
           ELSE IF ~L.built
           THEN /\ UNCHANGED <<layers, heap>>
                /\ res' = Result("expand", l, 0, "must be built before expanding", NoArgs, Null)
           ELSE IF X # Null /\ Shape(X) # <<num_new_tokens, L.output_dim>>
           THEN /\ UNCHANGED <<layers, heap>>
                /\ res' = Result("expand", l, 0, "doesn't match expected shape", NoArgs, Null)
           ELSE /\ FreeSlots # {}
                /\ LET n == MinOf(FreeSlots)
                       E == ExpandedLayer(L, heap, new_vocab_size)
                       new_embeddings ==
                           IF X = Null THEN GenMat(sx, num_new_tokens, L.output_dim)
                           ELSE X
                       new_lora_a_rows == GenA(sa, num_new_tokens, L.rank)
                   IN  /\ layers' = [layers EXCEPT ![n] = E]
                       /\ heap' = ExpandedHeap(L, heap, E, new_embeddings, new_lora_a_rows)
                       /\ res' = Result("expand", l, n, "", a, Null)

(***************************************************************************)
(* convert_embedding_to_dora(embedding_layer, rank, alpha), where           *)
(* embedding_layer is a keras Embedding of the given dimensions and        *)
(* mask_zero whose matrix, when it is built, is W                           *)
(***************************************************************************)
\* a faulty variant of ConvertedLayer: mask_zero left at the default of
\* DoRAEmbedding
ConvertedLayerUnmasked(input_dim, output_dim, mask_zero, rank, alpha, built, h) ==
    LET D == InitLayer(input_dim, output_dim, rank, alpha, "ones")
    IN  IF built THEN BuiltLayer(D, h) ELSE D

\* dora_layer: constructed with the source's dimensions and mask_zero, and
\* built when the source is built
ConvertedLayer(input_dim, output_dim, mask_zero, rank, alpha, built, h) ==
    LET D == [InitLayer(input_dim, output_dim, rank, alpha, "ones")
                 EXCEPT !.mask_zero = mask_zero]
    IN  IF built THEN BuiltLayer(D, h) ELSE D

\* dora_layer.build(None) and dora_layer.load_pretrained_embeddings(W)
ConvertedHeap(D, h, W, sa) ==
    LET U == [D EXCEPT !.built = FALSE]
        b == BuiltHeap(U, h, GenMat(0, D.input_dim, D.output_dim),
                       GenA(sa, D.input_dim, D.rank))
    IN  LoadedHeap(b, D, W)

Convert(input_dim, output_dim, mask_zero, built, W, rank, alpha, sa) ==
    /\ FreeSlots # {}
    /\ IF built
       THEN input_dim >= 1 /\ output_dim >= 1 /\ W # Null
            /\ Shape(W) = <<input_dim, output_dim>>
       ELSE W = Null
    /\ LET n == MinOf(FreeSlots)
           e == InitError(input_dim, output_dim, rank, alpha)
           a == [input_dim |-> input_dim, output_dim |-> output_dim,
                 mask_zero |-> mask_zero, built |-> built,
                 embeddings |-> W, rank |-> rank, alpha |-> alpha]
           D == ConvertedLayer(input_dim, output_dim, mask_zero, rank, alpha, built, heap)
       IN  IF e # ""
           THEN /\ UNCHANGED <<layers, heap>>
                /\ res' = Result("convert", 0, 0, e, NoArgs, Null)
           ELSE /\ layers' = [layers EXCEPT ![n] = D]
                /\ heap' = IF built THEN ConvertedHeap(D, heap, W, sa) ELSE heap
                /\ res' = Result("convert", 0, n, "", a, Null)

(***************************************************************************)
(* DoRAPositionEmbedding; its sequence_length is kept in input_dim          *)
(***************************************************************************)
PosInitLayer(sequence_length, output_dim, rank, alpha) ==
    [kind |-> "position", input_dim |-> sequence_length, output_dim |-> output_dim,
     rank |-> rank, alpha |-> alpha, scaling |-> Scaling(alpha, rank),
     magnitude_initializer |-> "ones", built |-> FALSE,
     embeddings |-> 0, lora_a |-> 0, lora_b |-> 0, magnitude |-> 0,
     trainable_weights |-> {}, non_trainable_weights |-> {}]

\* DoRAPositionEmbedding(sequence_length, output_dim, rank, alpha)
PosNew(sequence_length, output_dim, rank, alpha) ==
    /\ FreeSlots # {}
    /\ LET l == MinOf(FreeSlots)
           a == <<sequence_length, output_dim, rank, alpha>>
       IN  IF rank = 0
           THEN \* self.alpha / self.rank
                /\ layers' = layers
                /\ res' = Result("pos_new", l, 0, "ZeroDivisionError", NoArgs, Null)
           ELSE /\ layers' = [layers EXCEPT
                                 ![l] = PosInitLayer(sequence_length, output_dim, rank, alpha)]
                /\ res' = Result("pos_new", l, l, "", a, Null)
    /\ UNCHANGED heap

\* layer.build(input_shape), for shapes add_weight accepts
PosBuild(l, sw, sa) ==
    /\ Exists(l)
    /\ layers[l].kind = "position"
    /\ ~layers[l].built
    /\ layers[l].input_dim >= 1 /\ layers[l].output_dim >= 1 /\ layers[l].rank >= 1
    /\ LET L == layers[l]
       IN  /\ layers' = [layers EXCEPT ![l] = BuiltLayer(L, heap)]
           /\ heap' = BuiltHeap(L, heap, GenMat(sw, L.input_dim, L.output_dim),
                                GenA(sa, L.input_dim, L.rank))
    /\ res' = Result("pos_build", l, 0, "", NoArgs, Null)

\* ops.arange(start, stop)
Arange(start, stop) == [i \in 1..(stop - start) |-> start + i - 1]

\* ops.clip(x, lo, hi) on a vector
Clip(x, lo, hi) ==
    [i \in 1..Len(x) |-> IF x[i] < lo THEN lo ELSE IF x[i] > hi THEN hi ELSE x[i]]

\* ops.broadcast_to(ops.expand_dims(M, axis=0), [batch, ...])
BroadcastTo(M, batch) == [b \in 1..batch |-> M]

\* a faulty variant of PosCall: positions past the end start again at row 0
PosCallWrapping(l, batch, seq_len, start_index) ==
    /\ Exists(l)
    /\ layers[l].kind = "position"
    /\ layers[l].built
    /\ LET L == layers[l]
           positions == [i \in 1..seq_len |-> (start_index + i - 1) % L.input_dim]
       IN  res' = Result("pos_call", l, 0, "",
                        [batch |-> batch, seq_len |-> seq_len,
                         start_index |-> start_index],
                        BroadcastTo(Take(EffectiveEmbeddings(heap, L), positions), batch))
    /\ UNCHANGED <<layers, heap>>

\* layer(inputs, start_index) on a built layer, inputs of shape
\* (batch, seq_len, hidden_dim): only the shape of inputs is read
PosCall(l, batch, seq_len, start_index) ==
    /\ Exists(l)
    /\ layers[l].kind = "position"
    /\ layers[l].built
    /\ LET L == layers[l]
           effective_pos_embeddings == EffectiveEmbeddings(heap, L)
           positions == Clip(Arange(start_index, start_index + seq_len),
                             0, L.input_dim - 1)
           position_embeddings == Take(effective_pos_embeddings, positions)
       IN  res' = Result("pos_call", l, 0, "",
                        [batch |-> batch, seq_len |-> seq_len,
                         start_index |-> start_index],
                        BroadcastTo(position_embeddings, batch))
    /\ UNCHANGED <<layers, heap>>

(***************************************************************************)
(* Specifications                                                           *)
(***************************************************************************)
\* nothing constructed yet; room for k layer objects and their variables
InitWith(k) ==
    /\ layers = [l \in 1..k |-> NoLayer]
    /\ heap = [t \in 1..(4 * k) |-> Null]
    /\ res = Result("init", 0, 0, "", NoArgs, Null)

Init == InitWith(2)

\* index sequences for a forward call on a layer of r rows
Inputs(r) == {<<i, (i + 1) % r>> : i \in 0..(r - 1)}

\* the same as int32 tensors
IntInputs(r) == {[dtype |-> "int32", data |-> x] : x \in Inputs(r)}

\* input tensors of the three dtypes: an int32 and an int64 one holding the
\* first and the last index, and a float32 one holding r - 1 + 0.5 and 0.0
TypedInputs(r) ==
    {[dtype |-> "int32", data |-> <<r - 1, 0>>],
     [dtype |-> "int64", data |-> <<0, r - 1>>],
     [dtype |-> "float32", data |-> <<2 * (r - 1) + 1, 0>>]}

NewAny ==
    \E i \in RowArgs, o \in ColArgs, r \in RankArgs, a \in AlphaArgs, mg \in MagInits :
        New(i, o, r, a, mg)

\* the source layer is either built, holding a matrix W, or not built; its
\* mask_zero is the default of keras.layers.Embedding
ConvertAny ==
    \E r \in RankArgs, a \in AlphaArgs :
        \/ \E W \in Matrices(Seeds), sa \in Seeds :
              Convert(Len(W), Len(W[1]), FALSE, TRUE, W, r, a, sa)
        \/ \E i \in RowArgs, o \in ColArgs :
              Convert(i, o, FALSE, FALSE, Null, r, a, 0)

ExpandAny ==
    \E l \in LayerIds, v \in 1..MaxVocab :
        \/ \E sx \in Seeds \ {2} : Expand(l, v, Null, sx, 2)
        \/ \E X \in Matrices({1}) : Expand(l, v, X, 0, 2)

PosNewAny ==
    \E i \in RowArgs, o \in ColArgs, r \in RankArgs, a \in AlphaArgs : PosNew(i, o, r, a)

PosBuildAny == \E l \in LayerIds, sw \in Seeds, sa \in Seeds : PosBuild(l, sw, sa)

LayerOps ==
    \/ \E l \in LayerIds, sw \in Seeds, sa \in Seeds \ {0} : Build(l, sw, sa)
    \/ \E l \in LayerIds :
          \E P \in Matrices({1}) \cup Samples(Seeds, layers[l].input_dim, layers[l].output_dim) :
             Load(l, P)
    \/ \E l \in LayerIds, sab \in Seeds \ {0}, sm \in Seeds : Assign(l, sab, sm)
    \/ \E l \in LayerIds : GetEffective(l)
    \/ \E l \in LayerIds : Merge(l)
    \/ \E l \in LayerIds : \E inputs \in TypedInputs(layers[l].input_dim) : Call(l, inputs)

\* every operation, in any order, on any layer
Next ==
    \/ NewAny
    \/ ConvertAny
    \/ ExpandAny
    \/ PosNewAny
    \/ PosBuildAny
    \/ LayerOps

Spec == Init /\ [][Next]_vars

NoLayers == \A l \in LayerIds : ~Exists(l)

\* the life of one layer: made by the constructor or by conversion, then used
NextLife ==
    \/ NewAny
    \/ ConvertAny
    \/ LayerOps

SpecLife == InitWith(1) /\ [][NextLife]_vars

\* one layer and a layer grown from it; fewer samples than in NextLife
NextGrow ==
    \/ NoLayers /\ \E i \in RowArgs, o \in ColArgs, r \in RankArgs, a \in {0, 1} :
                       New(i, o, r, a, "ones")
    \/ ExpandAny
    \/ \E l \in LayerIds, sw \in Seeds \ {2} : Build(l, sw, 1)
    \/ \E l \in LayerIds, P \in Matrices({2}) : Load(l, P)
    \/ \E l \in LayerIds : Assign(l, 2, 1)
    \/ \E l \in LayerIds : CountParams(l)

SpecGrow == InitWith(2) /\ [][NextGrow]_vars

\* the shapes and start indices of the position calls: inputs shorter and
\* longer than any sequence_length, start indices before, at and after 0
Batches == {1, 2}
SeqLens == {1, MaxRows + 1}
StartIndices == {-1, 0, 1}

\* position-embedding layers
NextPos ==
    \/ PosNewAny
    \/ PosBuildAny
    \/ \E l \in LayerIds : layers[l].kind = "position" /\ Assign(l, 2, 1)
    \/ \E l \in LayerIds, b \in Batches, n \in SeqLens, st \in StartIndices :
          PosCall(l, b, n, st)

SpecPos == InitWith(1) /\ [][NextPos]_vars

\* every operation of a layer with valid parameters and of the layer grown
\* from it: one sample for each draw, every reading operation
NextOps ==
    \/ NoLayers /\ \E i \in 1..MaxRows, o \in 1..MaxCols :
                       NewMasked(i, o, 1, 2, "ones")
    \/ \E l \in LayerIds : Build(l, 1, 1)
    \/ \E l \in LayerIds :
          \E P \in Samples({2}, layers[l].input_dim, layers[l].output_dim)
                       \cup Samples({2}, 1, 1) : Load(l, P)
    \/ \E l \in LayerIds : Assign(l, 2, 1)
    \/ \E l \in LayerIds, v \in 1..MaxVocab :
          \/ Expand(l, v, Null, 0, 2)
          \/ \E X \in Samples({1}, v - layers[l].input_dim, layers[l].output_dim) :
                Expand(l, v, X, 0, 2)
    \/ \E l \in LayerIds : GetEffective(l)
    \/ \E l \in LayerIds : Merge(l)
    \/ \E l \in LayerIds : \E inputs \in IntInputs(layers[l].input_dim) : Call(l, inputs)
    \/ \E l \in LayerIds : CountParams(l)
    \/ \E l \in LayerIds : GetConfig(l)
    \/ \E l \in LayerIds : \E inputs \in Inputs(layers[l].input_dim) : ComputeMask(l, inputs)

SpecOps == InitWith(2) /\ [][NextOps]_vars

\* the ways a layer comes to be (constructor, conversion of a built or of an
\* unbuilt Embedding with either mask_zero, build, growth), for every valid
\* rank and alpha, and the operations that follow
NextMake ==
    \/ NoLayers /\ \E i \in 1..MaxRows, o \in 1..MaxCols, r \in 1..MaxRank, a \in AlphaVals :
                       New(i, o, r, a, "ones")
    \/ NoLayers /\ \E r \in 1..MaxRank, a \in AlphaVals, mz \in BOOLEAN :
                       \/ \E W \in Matrices({1}) :
                             Convert(Len(W), Len(W[1]), mz, TRUE, W, r, a, 1)
                       \/ \E i \in 1..MaxRows, o \in 1..MaxCols :
                             Convert(i, o, mz, FALSE, Null, r, a, 0)
    \/ \E l \in LayerIds : Build(l, 1, 1)
    \/ \E l \in LayerIds :
          \E P \in Samples({2}, layers[l].input_dim, layers[l].output_dim)
                       \cup Samples({2}, 1, 1) : Load(l, P)
    \/ \E l \in LayerIds, v \in 1..MaxVocab : Expand(l, v, Null, 1, 2)
    \/ \E l \in LayerIds : Merge(l)
    \/ \E l \in LayerIds : \E inputs \in IntInputs(layers[l].input_dim) : Call(l, inputs)

SpecMake == InitWith(2) /\ [][NextMake]_vars

\* the layers that exist, and the one made last
Existing == {l \in LayerIds : Exists(l)}
MaxOf(S) == CHOOSE x \in S : \A y \in S : x >= y
OneLayer == Cardinality(Existing) = 1

\* repeated growth: one layer is constructed, built and possibly loaded and
\* trained; from then on the only operation is expand_vocabulary, each time
\* on the layer the last growth returned
NextChain ==
    \/ NoLayers /\ \E i \in 1..MaxRows, o \in 1..MaxCols, r \in 1..MaxRank, mg \in MagInits :
                       New(i, o, r, 1, mg)
    \/ OneLayer /\ \E sw \in Seeds \ {2} : Build(1, sw, 1)
    \/ OneLayer /\ \E P \in Samples({2}, layers[1].input_dim, layers[1].output_dim) :
                       Load(1, P)
    \/ OneLayer /\ Assign(1, 2, 1)
    \/ Existing # {} /\ \E v \in 1..MaxVocab :
          LET l == MaxOf(Existing)
          IN  \/ \E sx \in Seeds \ {2} : Expand(l, v, Null, sx, 2)
              \/ \E X \in Samples({1}, v - layers[l].input_dim, layers[l].output_dim) :
                    Expand(l, v, X, 0, 2)

SpecChain == InitWith(3) /\ [][NextChain]_vars


(***************************************************************************)
(* Properties.  A value of the effective matrix is compared exactly; where *)
(* the code is only right up to the floor 1e-8 the comparison allows a     *)
(* difference below the floor, which is inside the tests' atol of 1e-6.    *)
(***************************************************************************)
RAbs(a) == [a EXCEPT !.s = Abs(a.s)]

\* x and y have one sign and |x| <= |y| <= 1e-8, so |x - y| <= 1e-8
WithinFloor(x, y) == x.s = y.s /\ RAbsLeq(x, y) /\ RAbsLeq(y, REps)

Rows(M) == 1..Len(M)
Cols(M) == 1..Len(M[1])

\* the last step was a successful conversion of a built Embedding
Converted == res.op = "convert" /\ res.err = "" /\ res.args.built

\* C1: the layer convert_embedding_to_dora makes of a built Embedding with
\* matrix W looks up, at every index in [0, R), the row of W: exactly in
\* every column whose norm is 0 or at least 1e-8, and within 1e-8 (same
\* sign, no larger) in a column whose norm lies strictly between
C1_ConversionEquivalence ==
    Converted =>
        LET W == res.args.embeddings
            E == EffectiveEmbeddings(heap, layers[res.out])
        IN  \A i \in Rows(W), j \in Cols(W) :
                LET looked == Take(E, <<i - 1>>)[1][j]
                    w == RFrac(W[i][j], 1, 1)
                IN  IF ColSumSq(W, j) = 0 \/ ColSumSq(W, j) >= EpsUnits * EpsUnits
                    THEN looked = w
                    ELSE WithinFloor(looked, w)

\* a conversion of a W with two rows or more, an all-zero column and a
\* non-zero column under the floor
C1_Witness ==
    /\ Converted
    /\ Len(res.args.embeddings) >= 2
    /\ \E j \in Cols(res.args.embeddings) : ColSumSq(res.args.embeddings, j) = 0
    /\ \E j \in Cols(res.args.embeddings) :
           /\ ColSumSq(res.args.embeddings, j) > 0
           /\ ColSumSq(res.args.embeddings, j) < EpsUnits * EpsUnits

\* the last step was a successful get_effective_embeddings()
Computed == res.op = "effective" /\ res.err = ""

\* rank * combined[i, j], from the layer's alpha and rank and its tensors
CombinedTimesRank(L, i, j) ==
    L.rank * W0Of(heap, L)[i][j]
    + L.alpha * SumTo([k \in 1..L.rank |->
                          AOf(heap, L)[i][k] * BOf(heap, L)[k][j]], L.rank)

\* C2: E[i, j] = m[j] * combined[i, j] / max(norm_j, 1e-8), where
\* combined = W0 + (A @ B) * (alpha / rank) and norm_j is the L2 norm of
\* column j of combined, the sum running over the rows
C2_EffectiveFormula ==
    Computed =>
        LET L == layers[res.layer]
            R == L.input_dim
        IN  \A i \in 1..R, j \in 1..L.output_dim :
                LET sumsq == SumTo([k \in 1..R |->
                                 CombinedTimesRank(L, k, j) * CombinedTimesRank(L, k, j)], R)
                    floored ==
                        IF sumsq < EpsUnits * EpsUnits * L.rank * L.rank
                        THEN REps
                        ELSE RNorm(1, sumsq, L.rank * L.rank, 1)
                IN  res.val[i][j] =
                        RMul(MOf(heap, L)[j],
                             RDiv(RFrac(CombinedTimesRank(L, i, j), L.rank, 1), floored))

\* an effective matrix of two rows and two columns at least, B not zero,
\* alpha / rank not 1, and two columns of different norms
C2_Witness ==
    /\ Computed
    /\ LET L == layers[res.layer]
           comb == CombinedEmbeddings(W0Of(heap, L),
                       LoraAdaptation(AOf(heap, L), BOf(heap, L), L.scaling))
       IN  /\ L.input_dim >= 2
           /\ L.output_dim >= 2
           /\ L.alpha # L.rank
           /\ BOf(heap, L) # Zeros(L.rank, L.output_dim)
           /\ ColSumSq(comb.mat, 1) # ColSumSq(comb.mat, 2)
           /\ \E i \in 1..L.input_dim : res.val[i][1] # RZero


\* the sum of two fractions [n, d], over the least common denominator
FracAdd(x, y) ==
    LET g == GCD(x.d, y.d)
        n == x.n * (y.d \div g) + y.n * (x.d \div g)
        d == x.d * (y.d \div g)
        h == GCD(n, d)
    IN  [n |-> n \div h, d |-> d \div h]

\* the sum of the squares of rows 1..k of column j of a matrix of reals
RECURSIVE RealColSumSq(_, _, _)
RealColSumSq(E, j, k) ==
    IF k = 0 THEN [n |-> 0, d |-> 1]
    ELSE FracAdd([n |-> E[k][j].n, d |-> E[k][j].d], RealColSumSq(E, j, k - 1))

\* the L2 norm of column j of a matrix of reals whose non-zero entries are
\* in the unit u
RealColumnNorm(E, j, u) ==
    LET sq == RealColSumSq(E, j, Len(E)) IN RNorm(1, sq.n, sq.d, u)

\* column j of combined has a norm above the floor 1e-8
AboveFloor(L, j) ==
    LET comb == CombinedEmbeddings(W0Of(heap, L),
                    LoraAdaptation(AOf(heap, L), BOf(heap, L), L.scaling))
    IN  ~RAbsLeq(RawColumnNorms(comb)[j], REps)

SameUnit(E, j, u) == \A i \in Rows(E) : E[i][j] = RZero \/ E[i][j].u = u

\* C6 as stated: in every column j of combined whose norm is above 1e-8 the
\* L2 norm of column j of E equals m[j], for any real-valued m
C6_ColumnNormIsMagnitude ==
    Computed =>
        LET L == layers[res.layer]
            m == MOf(heap, L)
        IN  \A j \in 1..L.output_dim :
                AboveFloor(L, j) =>
                    /\ SameUnit(res.val, j, m[j].u)
                    /\ RealColumnNorm(res.val, j, m[j].u) = m[j]

\* C6, amended: in every column j of combined whose norm is above 1e-8 the
\* L2 norm of column j of E equals the absolute value of m[j]
C6_ColumnNormIsAbsMagnitude ==
    Computed =>
        LET L == layers[res.layer]
            m == MOf(heap, L)
        IN  \A j \in 1..L.output_dim :
                AboveFloor(L, j) =>
                    /\ SameUnit(res.val, j, m[j].u)
                    /\ RealColumnNorm(res.val, j, m[j].u) = RAbs(m[j])

\* an effective matrix with a column above the floor whose magnitude is
\* negative, and one whose magnitude is positive and not 1
C6_Witness ==
    /\ Computed
    /\ LET L == layers[res.layer]
           m == MOf(heap, L)
       IN  /\ L.input_dim >= 2
           /\ \E j \in 1..L.output_dim : AboveFloor(L, j) /\ m[j].s = -1
           /\ \E j \in 1..L.output_dim :
                  AboveFloor(L, j) /\ m[j].s = 1 /\ m[j] # ROne

ZeroMagnitude(L) == \A j \in 1..L.output_dim : MOf(heap, L)[j] = RZero

AllZero(E) == \A i \in Rows(E), j \in Cols(E) : E[i][j] = RZero

\* C7: when m is the zero vector the effective matrix is the zero matrix,
\* and so is the result of every lookup, columns under the floor included
C7_ZeroMagnitude ==
    \A l \in LayerIds :
        (Exists(l) /\ layers[l].built /\ ZeroMagnitude(layers[l])) =>
            /\ AllZero(EffectiveEmbeddings(heap, layers[l]))
            /\ (res.layer = l /\ res.op \in {"call", "effective", "merge"}
                    /\ res.err = "")
                   => AllZero(res.val)

\* a lookup in a layer of zero magnitude whose combined matrix has a column
\* above the floor and a non-zero column under it
C7_Witness ==
    /\ res.op = "call"
    /\ LET L == layers[res.layer]
           comb == CombinedEmbeddings(W0Of(heap, L),
                       LoraAdaptation(AOf(heap, L), BOf(heap, L), L.scaling))
       IN  /\ ZeroMagnitude(L)
           /\ \E j \in 1..L.output_dim : AboveFloor(L, j)
           /\ \E j \in 1..L.output_dim :
                  ~AboveFloor(L, j) /\ ColSumSq(comb.mat, j) > 0

\* C8: right after the conversion of a built Embedding with matrix W the
\* new layer has W0 = W entry for entry, B all zeros, and m[j] the L2 norm
\* of column j of W with no floor applied: m[j] >= 0 and m[j]^2 is the sum
\* of the squares of the column
C8_ConversionState ==
    Converted =>
        LET W == res.args.embeddings
            D == layers[res.out]
            m == MOf(heap, D)
        IN  /\ D.built
            /\ W0Of(heap, D) = W
            /\ BOf(heap, D) = Zeros(D.rank, D.output_dim)
            /\ Len(m) = Len(W[1])
            /\ \A j \in Cols(W) :
                   /\ m[j].s = Sgn(ColSumSq(W, j))
                   /\ m[j].n = ColSumSq(W, j) * m[j].d
                   /\ m[j].s # 0 => m[j].u = 1

\* a conversion of a W with a non-zero column under the floor, a column
\* at or above it, and an A that is not zero
C8_Witness ==
    /\ Converted
    /\ LET W == res.args.embeddings
           D == layers[res.out]
       IN  /\ \E j \in Cols(W) :
                  ColSumSq(W, j) > 0 /\ ColSumSq(W, j) < EpsUnits * EpsUnits
           /\ \E j \in Cols(W) : ColSumSq(W, j) >= EpsUnits * EpsUnits
           /\ AOf(heap, D) # Zeros(D.input_dim, D.rank)

ValidParams(input_dim, output_dim, rank, alpha) ==
    input_dim >= 1 /\ output_dim >= 1 /\ rank >= 1 /\ alpha > 0

\* C9: DoRAEmbedding(...) with input_dim <= 0, output_dim <= 0, rank <= 0 or
\* alpha <= 0 is rejected with an error and makes no layer, and so is
\* convert_embedding_to_dora with rank <= 0 or alpha <= 0: the checks turn
\* every such argument down, a construction that went through had valid
\* arguments, and one that failed left no layer behind
C9_InvalidRejected ==
    /\ \A i \in RowArgs, o \in ColArgs, r \in RankArgs, a \in AlphaArgs :
           ~ValidParams(i, o, r, a) => InitError(i, o, r, a) # ""
    /\ res.op \in {"new", "convert"} =>
           IF res.err = ""
           THEN /\ IF res.op = "new"
                   THEN ValidParams(res.args[1], res.args[2], res.args[3], res.args[4])
                   ELSE ValidParams(res.args.input_dim, res.args.output_dim,
                                    res.args.rank, res.args.alpha)
                /\ Exists(res.out)
           ELSE /\ res.out = 0
                /\ NoLayers
                /\ \A t \in TensorIds : heap[t] = Null

\* a conversion turned down for its alpha
C9_Witness ==
    /\ res.op = "convert"
    /\ res.err = "alpha must be positive"
    /\ NoLayers

\* C10 as stated: every layer that exists, DoRAPositionEmbedding included,
\* has rank >= 1, alpha > 0, R >= 1 and C >= 1
C10_ParameterInvariant ==
    \A l \in LayerIds :
        Exists(l) =>
            ValidParams(layers[l].input_dim, layers[l].output_dim,
                        layers[l].rank, layers[l].alpha)


\* the last step was a successful expand_vocabulary: res.layer is the
\* original and res.out the grown layer
Expanded == res.op = "expand" /\ res.err = ""

\* C3: a successful expand_vocabulary from R to R' > R rows returns a layer
\* of R' rows whose W0[:R] and A[:R] are the original's W0 and A as they
\* were at the call, and whose B and m are the original's, entry for entry,
\* whether the new rows were passed in or drawn by the initializer
C3_GrowthPreservesPrefix ==
    [][(res'.op = "expand" /\ res'.err = "") =>
          LET L == layers[res'.layer]
              G == layers'[res'.out]
          IN  /\ G.input_dim = res'.args.new_vocab_size
              /\ G.input_dim > L.input_dim
              /\ Len(W0Of(heap', G)) = G.input_dim
              /\ Len(AOf(heap', G)) = G.input_dim
              /\ Prefix(W0Of(heap', G), L.input_dim) = W0Of(heap, L)
              /\ Prefix(AOf(heap', G), L.input_dim) = AOf(heap, L)
              /\ BOf(heap', G) = BOf(heap, L)
              /\ MOf(heap', G) = MOf(heap, L)]_vars

\* a growth with the new rows passed in, from a layer whose B is not zero
\* and whose m is not the initial one
C3_Witness ==
    /\ Expanded
    /\ res.args.new_token_embeddings # Null
    /\ LET L == layers[res.layer]
       IN  /\ BOf(heap, L) # Zeros(L.rank, L.output_dim)
           /\ MOf(heap, L) # MagnitudeInit("ones", L.output_dim)
           /\ AOf(heap, L) # Zeros(L.input_dim, L.rank)

\* every new row of the grown layer's combined matrix is zero in column j
NewRowsZero(L, G, j) ==
    LET comb == CombinedEmbeddings(W0Of(heap, G),
                    LoraAdaptation(AOf(heap, G), BOf(heap, G), G.scaling))
    IN  \A i \in (L.input_dim + 1)..G.input_dim : comb.mat[i][j] = 0

\* C4 as stated: after a growth the first R rows of the grown layer's
\* effective matrix equal the original's effective matrix, whatever the
\* new rows hold
C4_GrowthReproducesRows ==
    Expanded =>
        Prefix(EffectiveEmbeddings(heap, layers[res.out]),
               layers[res.layer].input_dim)
            = EffectiveEmbeddings(heap, layers[res.layer])

\* C4, amended: after a growth the first R rows of the grown layer's
\* effective matrix equal the original's in every column in which the new
\* rows of combined are zero
C4_GrowthReproducesRowsOfUntouchedColumns ==
    Expanded =>
        LET L == layers[res.layer]
            G == layers[res.out]
            EL == EffectiveEmbeddings(heap, L)
            EG == EffectiveEmbeddings(heap, G)
        IN  \A j \in 1..L.output_dim :
                NewRowsZero(L, G, j) =>
                    \A i \in 1..L.input_dim : EG[i][j] = EL[i][j]

\* a growth that leaves a column with non-zero effective values untouched
\* and changes the effective values of another
C4_Witness ==
    /\ Expanded
    /\ LET L == layers[res.layer]
           G == layers[res.out]
           EL == EffectiveEmbeddings(heap, L)
           EG == EffectiveEmbeddings(heap, G)
       IN  /\ \E j \in 1..L.output_dim :
                  /\ NewRowsZero(L, G, j)
                  /\ \E i \in 1..L.input_dim : EL[i][j] # RZero
           /\ \E j \in 1..L.output_dim :
                  /\ ~NewRowsZero(L, G, j)
                  /\ \E i \in 1..L.input_dim : EG[i][j] # EL[i][j]

\* layer k and its tensors are after the step what they were before it
Untouched(k) ==
    /\ layers'[k] = layers[k]
    /\ \A t \in TensorsOf(layers[k]) : heap'[t] = heap[t]

\* C5: a growth leaves the original's input_dim, W0, A, B and m as they
\* were; no two layers share a tensor; and a later load or assignment on
\* the original or on the grown layer changes no tensor of the other
C5_GrowthImmutable ==
    [][/\ (res'.op = "expand" /\ res'.err = "") =>
              /\ Untouched(res'.layer)
              /\ layers'[res'.out].built
              /\ Cardinality(TensorsOf(layers'[res'.out])) = 4
       /\ res'.op \in {"load", "assign"} =>
              \A k \in LayerIds \ {res'.layer} : Exists(k) => Untouched(k)
       /\ \A a, b \in LayerIds :
              a # b => TensorsOf(layers'[a]) \cap TensorsOf(layers'[b]) = {}]_vars

\* a load into the original after a growth: the two layers are both there
\* and the grown layer's first rows are no longer the original's
C5_Witness ==
    /\ res.op = "load"
    /\ res.err = ""
    /\ \E g \in LayerIds \ {res.layer} :
           /\ Exists(g)
           /\ layers[g].built
           /\ layers[g].input_dim > layers[res.layer].input_dim
           /\ Prefix(W0Of(heap, layers[g]), layers[res.layer].input_dim)
                  # W0Of(heap, layers[res.layer])


\* the call layers[l].expand_vocabulary(new_vocab_size, X), whatever the
\* initializers draw
ExpandCall(l, new_vocab_size, X) ==
    IF X = Null
    THEN \E sx \in Seeds : Expand(l, new_vocab_size, Null, sx, 2)
    ELSE Expand(l, new_vocab_size, X, 0, 2)

\* the new-row blocks a caller passes to expand_vocabulary, None included
NewRowArgs == {Null} \cup Matrices({1})

\* nothing was made and nothing was changed
NothingChanged == layers' = layers /\ heap' = heap

\* the step raised the error err and returned nothing
Raised(err) == res'.err = err /\ res'.out = 0 /\ NothingChanged

IsEmbedding(l) == Exists(l) /\ layers[l].kind = "embedding"

C12_GrowthRequiresBuilt ==
    \A l \in LayerIds, v \in 1..MaxVocab, X \in NewRowArgs :
        (IsEmbedding(l) /\ ~layers[l].built /\ v > layers[l].input_dim) =>
            /\ ENABLED ExpandCall(l, v, X)
            /\ ~ENABLED (ExpandCall(l, v, X) /\ ~Raised("must be built before expanding"))

\* a growth of a layer that is not built, turned down; no tensor exists
C12_Witness ==
    /\ res.op = "expand"
    /\ res.err = "must be built before expanding"
    /\ ~layers[res.layer].built
    /\ \A t \in TensorIds : heap[t] = Null
    /\ \A k \in LayerIds \ {res.layer} : ~Exists(k)

\* C13: when expand_vocabulary(R', X) is given a block X of shape
\* (R' - R, C), rows R..R'-1 of the grown W0 are X, row for row in the same
\* order, and the grown W0 and A have R' rows
C13_SuppliedRowsVerbatim ==
    (Expanded /\ res.args.new_token_embeddings # Null) =>
        LET L == layers[res.layer]
            G == layers[res.out]
            X == res.args.new_token_embeddings
        IN  /\ G.input_dim = res.args.new_vocab_size
            /\ Shape(X) = <<G.input_dim - L.input_dim, L.output_dim>>
            /\ Len(W0Of(heap, G)) = G.input_dim
            /\ Len(AOf(heap, G)) = G.input_dim
            /\ \A i \in 1..Len(X) : W0Of(heap, G)[L.input_dim + i] = X[i]

\* a growth by two passed-in rows that differ
C13_Witness ==
    /\ Expanded
    /\ res.args.new_token_embeddings # Null
    /\ Len(res.args.new_token_embeddings) >= 2
    /\ res.args.new_token_embeddings[1] # res.args.new_token_embeddings[2]

\* C14: load_pretrained_embeddings with a matrix whose shape is not (R, C),
\* and expand_vocabulary with a block whose shape is not (R' - R, C), raise
\* the shape error and leave W0, A, B and m of the layer as they were
C14_ShapeMismatchChangesNothing ==
    \A l \in LayerIds :
        (IsEmbedding(l) /\ layers[l].built) =>
            /\ \A P \in Matrices(Seeds) :
                   Shape(P) # <<layers[l].input_dim, layers[l].output_dim>> =>
                       /\ ENABLED Load(l, P)
                       /\ ~ENABLED (Load(l, P) /\ ~Raised("doesn't match expected shape"))
            /\ \A v \in 1..MaxVocab, X \in Matrices({1}) :
                   (/\ v > layers[l].input_dim
                    /\ Shape(X) # <<v - layers[l].input_dim, layers[l].output_dim>>) =>
                       /\ ENABLED ExpandCall(l, v, X)
                       /\ ~ENABLED (ExpandCall(l, v, X)
                                       /\ ~Raised("doesn't match expected shape"))

\* a load turned down for its shape, on a trained layer
C14_Witness ==
    /\ res.op = "load"
    /\ res.err = "doesn't match expected shape"
    /\ LET L == layers[res.layer]
       IN  /\ BOf(heap, L) # Zeros(L.rank, L.output_dim)
           /\ MOf(heap, L) # MagnitudeInit("ones", L.output_dim)


\* the error the code raises for a layer that is not built
NotBuiltErrors == {"must be built before expanding"}

\* C15 as stated: get_effective_embeddings or merge_weights on a layer that
\* is not built reports a not-built error and returns no matrix
C15_EffectiveRequiresBuilt ==
    (res.op \in {"effective", "merge"} /\ ~layers[res.layer].built) =>
        /\ res.err \in NotBuiltErrors
        /\ res.val = Null


\* the number of entries of a matrix, and of the tensors A, B and m of a
\* built layer
Entries(M) == IF Len(M) = 0 THEN 0 ELSE Len(M) * Len(M[1])

AdapterEntries(L) ==
    Entries(AOf(heap, L)) + Entries(BOf(heap, L)) + Len(MOf(heap, L))

\* C16: count_params of a DoRAEmbedding is R * rank + rank * C + C, W0 not
\* counted, for every valid R, C and rank; for a built layer, a grown one
\* with its R' rows included, that is the number of entries of A, B and m,
\* with R the number of rows of W0
C16_ParameterCount ==
    (res.op = "count_params" /\ res.err = "") =>
        LET L == layers[res.layer]
        IN  /\ res.val = L.input_dim * L.rank + L.rank * L.output_dim + L.output_dim
            /\ L.built =>
                   /\ res.val = AdapterEntries(L)
                   /\ res.val = Len(W0Of(heap, L)) * L.rank
                                + L.rank * Len(W0Of(heap, L)[1]) + Len(W0Of(heap, L)[1])

\* count_params of a grown layer of rank 2 or more, with more rows than
\* columns
C16_Witness ==
    /\ res.op = "count_params"
    /\ LET L == layers[res.layer]
       IN  /\ L.built
           /\ L.rank >= 2
           /\ L.input_dim > L.output_dim
           /\ \E k \in LayerIds \ {res.layer} :
                  /\ Exists(k)
                  /\ layers[k].built
                  /\ layers[k].input_dim < L.input_dim
                  /\ W0Of(heap, layers[k]) = Prefix(W0Of(heap, L), layers[k].input_dim)


\* the step is a successful op on the layer the last successful operation,
\* an op0, was on; neither changes a tensor, so both saw the same state
Follows(op0, op) ==
    /\ res.op = op0
    /\ res.err = ""
    /\ res'.op = op
    /\ res'.err = ""
    /\ res'.layer = res.layer
    /\ NothingChanged

\* C17: the matrix merge_weights returns under "embeddings" is the matrix
\* get_effective_embeddings returns in the same state of a built layer, of
\* shape (R, C): whichever of the two is called right after the other
\* returns what the other returned
C17_MergeIsEffective ==
    [][/\ (Follows("effective", "merge") \/ Follows("merge", "effective")) =>
              res'.val = res.val
       /\ (res'.op = "merge" /\ res'.err = "") =>
              Shape(res'.val) = <<layers[res'.layer].input_dim,
                                  layers[res'.layer].output_dim>>]_vars

\* merge_weights on a trained layer of two rows or more whose columns have
\* different norms
C17_Witness ==
    /\ res.op = "merge"
    /\ res.err = ""
    /\ LET L == layers[res.layer]
       IN  /\ L.input_dim >= 2
           /\ L.output_dim >= 2
           /\ BOf(heap, L) # Zeros(L.rank, L.output_dim)
           /\ MOf(heap, L) # MagnitudeInit("ones", L.output_dim)
           /\ res.val # RealOf(W0Of(heap, L))

\* C18: get_effective_embeddings, merge_weights and the forward call change
\* none of W0, A, B, m, and what they return is fixed by the state they are
\* called in: every such step leaves every layer and tensor as it was and
\* returns the effective matrix of the tensors as they are (its looked-up
\* rows for the call), so two evaluations in one state return the same
C18_EffectiveIsPure ==
    [][(res'.op \in {"effective", "merge", "call"}) =>
          /\ NothingChanged
          /\ res'.err = "" =>
                 LET E == EffectiveEmbeddings(heap, layers[res'.layer])
                 IN  IF res'.op = "call"
                     THEN res'.val = Take(E, Int32Of(res'.args))
                     ELSE res'.val = E]_vars

\* a forward call on a trained layer whose magnitude is not the column norm
\* of its base matrix
C18_Witness ==
    /\ res.op = "call"
    /\ res.err = ""
    /\ LET L == layers[res.layer]
       IN  /\ BOf(heap, L) # Zeros(L.rank, L.output_dim)
           /\ MOf(heap, L) # LinalgNorm(W0Of(heap, L))
           /\ \E p \in 1..Len(res.val), j \in 1..L.output_dim : res.val[p][j] # RZero

\* C19: between two consecutive states the W0 of a built layer differs only
\* when the step is a successful load_pretrained_embeddings on that layer,
\* whichever of the operations the step is
C19_BaseChangesOnlyOnLoad ==
    [][\A l \in LayerIds :
          (IsEmbedding(l) /\ layers[l].built) =>
              /\ layers'[l].embeddings = layers[l].embeddings
              /\ W0Of(heap', layers'[l]) # W0Of(heap, layers[l]) =>
                     (res'.op = "load" /\ res'.err = "" /\ res'.layer = l)]_vars

\* a load that changed the base matrix of a layer from which a layer had
\* been grown
C19_Witness ==
    /\ res.op = "load"
    /\ res.err = ""
    /\ \E g \in LayerIds \ {res.layer} :
           /\ Exists(g)
           /\ layers[g].built
           /\ layers[g].input_dim > layers[res.layer].input_dim
           /\ BOf(heap, layers[g]) # Zeros(layers[g].rank, layers[g].output_dim)
           /\ Prefix(W0Of(heap, layers[g]), layers[res.layer].input_dim)
                  # W0Of(heap, layers[res.layer])

\* the step is not the optimizer's assignment to the variables of layer l
OwnOperation(l) == ~(res'.op = "assign" /\ res'.layer = l)

\* C20: no operation of a built layer changes its A or its B, and its m
\* differs between two consecutive states only when the step is a
\* successful load_pretrained_embeddings on that layer
C20_AdapterChangesOnlyOnLoad ==
    [][\A l \in LayerIds :
          (IsEmbedding(l) /\ layers[l].built /\ OwnOperation(l)) =>
              /\ AOf(heap', layers'[l]) = AOf(heap, layers[l])
              /\ BOf(heap', layers'[l]) = BOf(heap, layers[l])
              /\ MOf(heap', layers'[l]) # MOf(heap, layers[l]) =>
                     (res'.op = "load" /\ res'.err = "" /\ res'.layer = l)]_vars

\* a load into a trained layer: the magnitude is now the column norm of the
\* loaded matrix, A and B are still the trained ones
C20_Witness ==
    /\ res.op = "load"
    /\ res.err = ""
    /\ LET L == layers[res.layer]
       IN  /\ BOf(heap, L) # Zeros(L.rank, L.output_dim)
           /\ AOf(heap, L) # Zeros(L.input_dim, L.rank)
           /\ MOf(heap, L) = LinalgNorm(res.args)
           /\ MOf(heap, L) # MagnitudeInit("ones", L.output_dim)


\* the scaling of a layer is the quotient of its alpha by its rank
ScalingIsAlphaOverRank(L) ==
    /\ L.scaling.den # 0
    /\ L.scaling.num * L.rank = L.alpha * L.scaling.den

\* C21: the scaling of every DoRAEmbedding is alpha / rank for the alpha
\* and rank it was constructed with: no step (build, load, forward, merge,
\* growth) changes the rank, alpha or scaling of a layer that exists, and
\* the layer a growth returns has the rank, alpha and scaling of the original
C21_ScalingFixed ==
    [][/\ \A l \in LayerIds :
              (layers'[l].kind = "embedding") =>
                  /\ ScalingIsAlphaOverRank(layers'[l])
                  /\ IsEmbedding(l) =>
                         /\ layers'[l].rank = layers[l].rank
                         /\ layers'[l].alpha = layers[l].alpha
                         /\ layers'[l].scaling = layers[l].scaling
       /\ (res'.op = "new" /\ res'.err = "") =>
              /\ layers'[res'.out].rank = res'.args[3]
              /\ layers'[res'.out].alpha = res'.args[4]
       /\ (res'.op = "expand" /\ res'.err = "") =>
              /\ layers'[res'.out].rank = layers[res'.layer].rank
              /\ layers'[res'.out].alpha = layers[res'.layer].alpha
              /\ layers'[res'.out].scaling = layers[res'.layer].scaling]_vars

\* a growth of a loaded layer whose scaling is neither 1 nor its alpha
C21_Witness ==
    /\ Expanded
    /\ LET L == layers[res.layer]
       IN  /\ L.alpha = 1
           /\ L.rank = 2
           /\ layers[res.out].scaling = [num |-> 1, den |-> 2]
           /\ MOf(heap, L) = LinalgNorm(W0Of(heap, L))

\* M is a matrix of r rows of c entries each
HasShape(M, r, c) == Len(M) = r /\ \A i \in 1..r : Len(M[i]) = c

\* C22: a DoRAEmbedding is either not built, with none of the four tensors,
\* or built, with W0 of shape (input_dim, output_dim), A of shape
\* (input_dim, rank), B of shape (rank, output_dim) and m of shape
\* (output_dim,), W0 not trainable and A, B, m trainable; after a load, for
\* a converted and for a grown layer, and for a rank above R or C
C22_TensorShapes ==
    \A l \in LayerIds :
        IsEmbedding(l) =>
            LET L == layers[l]
            IN  IF ~L.built
                THEN /\ L.embeddings = 0 /\ L.lora_a = 0
                     /\ L.lora_b = 0 /\ L.magnitude = 0
                     /\ L.trainable_weights = {}
                     /\ L.non_trainable_weights = {}
                ELSE /\ Cardinality(TensorsOf(L)) = 4
                     /\ \A t \in TensorsOf(L) : heap[t] # Null
                     /\ HasShape(W0Of(heap, L), L.input_dim, L.output_dim)
                     /\ HasShape(AOf(heap, L), L.input_dim, L.rank)
                     /\ HasShape(BOf(heap, L), L.rank, L.output_dim)
                     /\ Len(MOf(heap, L)) = L.output_dim
                     /\ L.non_trainable_weights = {L.embeddings}
                     /\ L.trainable_weights = {L.lora_a, L.lora_b, L.magnitude}

\* a layer grown from a loaded or converted layer whose rank is above its
\* number of rows and above its number of columns
C22_Witness ==
    /\ Expanded
    /\ LET L == layers[res.layer]
           G == layers[res.out]
       IN  /\ L.rank > L.input_dim
           /\ L.rank > L.output_dim
           /\ G.input_dim > L.input_dim
           /\ MOf(heap, L) = LinalgNorm(W0Of(heap, L))

\* entry (i, j) of the effective matrix, from the tensors of L as they are:
\* m[j] * combined[i, j] / max(norm_j, 1e-8)
EffectiveEntry(L, i, j) ==
    LET R == L.input_dim
        sumsq == SumTo([k \in 1..R |->
                     CombinedTimesRank(L, k, j) * CombinedTimesRank(L, k, j)], R)
        floored ==
            IF sumsq < EpsUnits * EpsUnits * L.rank * L.rank
            THEN REps
            ELSE RNorm(1, sumsq, L.rank * L.rank, 1)
    IN  RMul(MOf(heap, L)[j],
             RDiv(RFrac(CombinedTimesRank(L, i, j), L.rank, 1), floored))

\* k is the index a forward call looks up for the input value d: d itself
\* for an int32 or int64 tensor, and for any other dtype the integer part of
\* the value, which is d halves
LooksUp(dtype, d, k) ==
    IF dtype \in IntDtypes THEN k = d
    ELSE 2 * k <= d /\ d < 2 * k + 2

\* C23: the output of a forward call on a built layer has one row of C
\* entries for each input position, and the row at a position is the row of
\* the effective matrix of the current W0, A, B, m at the index the input
\* holds there, the input cast to int32 first unless it is int32 or int64
C23_ForwardIsRowLookup ==
    (res.op = "call" /\ res.err = "") =>
        LET L == layers[res.layer]
            x == res.args
        IN  /\ Len(res.val) = Len(x.data)
            /\ \A p \in 1..Len(x.data) :
                   /\ Len(res.val[p]) = L.output_dim
                   /\ \E k \in 0..(L.input_dim - 1) :
                          /\ LooksUp(x.dtype, x.data[p], k)
                          /\ \A j \in 1..L.output_dim :
                                 res.val[p][j] = EffectiveEntry(L, k + 1, j)

\* a call with a float tensor holding a value that is not whole, on a
\* trained layer of two rows whose looked-up rows differ
C23_Witness ==
    /\ res.op = "call"
    /\ res.err = ""
    /\ res.args.dtype = "float32"
    /\ res.args.data[1] = 3
    /\ LET L == layers[res.layer]
       IN  /\ L.input_dim >= 2
           /\ BOf(heap, L) # Zeros(L.rank, L.output_dim)
           /\ res.val[1] # res.val[2]
           /\ res.val # Take(RealOf(W0Of(heap, L)), <<1, 0>>)

\* the combined matrix W0 + (A @ B) * scaling of a built layer
CombinedOf(L) ==
    CombinedEmbeddings(W0Of(heap, L),
                       LoraAdaptation(AOf(heap, L), BOf(heap, L), L.scaling))

\* column j of the combined matrix of L is zero in every row
ZeroColumn(L, j) == \A i \in 1..L.input_dim : CombinedTimesRank(L, i, j) = 0

\* C24: whenever the effective matrix of a built layer is evaluated the
\* divisor of column j is max(norm_j, 1e-8): it is 1e-8 when the norm of
\* the column of combined is below 1e-8 and the norm otherwise, and so
\* strictly positive; a column of combined that is all zero gives an
\* all-zero effective column whatever m is, and the evaluation raises nothing
C24_EpsilonFloor ==
    (/\ res.op \in {"effective", "merge", "call"}
     /\ layers[res.layer].built) =>
        LET L == layers[res.layer]
            divisor == ColumnNorms(CombinedOf(L))
        IN  /\ res.err = ""
            /\ \A j \in 1..L.output_dim :
                   LET sumsq == SumTo([k \in 1..L.input_dim |->
                                   CombinedTimesRank(L, k, j)
                                       * CombinedTimesRank(L, k, j)], L.input_dim)
                       d == divisor[j]
                   IN  /\ d.s = 1
                       /\ d.u = 1
                       /\ RAbsLeq(REps, d)
                       /\ IF sumsq < EpsUnits * EpsUnits * L.rank * L.rank
                          THEN d = REps
                          ELSE d.n * L.rank * L.rank = sumsq * d.d
                       /\ ZeroColumn(L, j) =>
                              \A p \in 1..Len(res.val) : res.val[p][j] = RZero

\* an evaluation on a layer whose combined matrix has an all-zero column
\* with a non-zero magnitude, a non-zero column under the floor and, with
\* B not zero, more than one row
C24_Witness ==
    /\ Computed
    /\ LET L == layers[res.layer]
       IN  /\ L.input_dim >= 2
           /\ \E j \in 1..L.output_dim : ZeroColumn(L, j) /\ MOf(heap, L)[j] # RZero
           /\ \E j \in 1..L.output_dim : ~ZeroColumn(L, j) /\ ~AboveFloor(L, j)

MinInt(a, b) == IF a <= b THEN a ELSE b
MaxInt(a, b) == IF a >= b THEN a ELSE b

\* C25: the output of a call of a built DoRAPositionEmbedding of
\* sequence_length L on inputs of shape (batch, n, C) with start index s has
\* shape (batch, n, C), and output[b, i, :] is row min(max(s + i, 0), L - 1)
\* of the effective position matrix for every b and i: positions past the
\* end take the last row, and every batch entry holds the same values
C25_PositionLookupClipped ==
    (res.op = "pos_call" /\ res.err = "") =>
        LET L == layers[res.layer]
            n == res.args.seq_len
            st == res.args.start_index
        IN  /\ Len(res.val) = res.args.batch
            /\ \A b \in 1..res.args.batch :
                   /\ Len(res.val[b]) = n
                   /\ \A i \in 0..(n - 1) :
                          /\ Len(res.val[b][i + 1]) = L.output_dim
                          /\ \A j \in 1..L.output_dim :
                                 res.val[b][i + 1][j] =
                                     EffectiveEntry(L,
                                         MinInt(MaxInt(st + i, 0), L.input_dim - 1) + 1, j)

\* a call with two batch entries, an input longer than the sequence_length
\* and a negative start index, on a trained layer of two rows or more whose
\* first and last rows differ
C25_Witness ==
    /\ res.op = "pos_call"
    /\ res.err = ""
    /\ res.args.batch = 2
    /\ res.args.start_index = -1
    /\ LET L == layers[res.layer]
       IN  /\ L.input_dim >= 2
           /\ res.args.seq_len > L.input_dim
           /\ BOf(heap, L) # Zeros(L.rank, L.output_dim)
           /\ res.val[1][1] # res.val[1][res.args.seq_len]

\* C26: convert_embedding_to_dora of an Embedding that is not built returns
\* a DoRAEmbedding that is not built, with no tensor allocated and nothing
\* loaded, carrying the source's input_dim, output_dim and mask_zero and the
\* rank and alpha asked for; of a built Embedding it returns a built layer
C26_ConvertUnbuilt ==
    (res.op = "convert" /\ res.err = "") =>
        LET D == layers[res.out]
            a == res.args
        IN  /\ D.kind = "embedding"
            /\ D.input_dim = a.input_dim
            /\ D.output_dim = a.output_dim
            /\ D.mask_zero = a.mask_zero
            /\ D.rank = a.rank
            /\ D.alpha = a.alpha
            /\ D.built = a.built
            /\ IF a.built
               THEN Cardinality(TensorsOf(D)) = 4
               ELSE /\ TensorsOf(D) = {}
                    /\ \A t \in TensorIds : heap[t] = Null

\* a conversion of an Embedding that is not built and has mask_zero set,
\* with a rank and an alpha that are not the defaults' scaling
C26_Witness ==
    /\ res.op = "convert"
    /\ res.err = ""
    /\ ~res.args.built
    /\ res.args.mask_zero
    /\ res.args.rank = 2
    /\ res.args.alpha = 1
    /\ res.args.input_dim # res.args.output_dim
    /\ ~layers[res.out].built

\* the last step was a successful load_pretrained_embeddings(res.args)
Loaded == res.op = "load" /\ res.err = ""

\* C27 as stated: after a successful load_pretrained_embeddings(P) on a
\* built layer the effective matrix equals P, whatever A, B and m were
\* before the call: exactly in every column of P whose norm is 0 or at least
\* 1e-8, and within 1e-8 in a column whose norm lies strictly between
C27_LoadRestoresEquivalence ==
    Loaded =>
        LET P == res.args
            E == EffectiveEmbeddings(heap, layers[res.layer])
        IN  \A i \in Rows(P), j \in Cols(P) :
                LET p == RFrac(P[i][j], 1, 1)
                IN  IF ColSumSq(P, j) = 0 \/ ColSumSq(P, j) >= EpsUnits * EpsUnits
                    THEN E[i][j] = p
                    ELSE WithinFloor(E[i][j], p)

\* the L2 norm of column j of the stored matrix W is 1.0
NormIsOne(W, j) ==
    /\ ColSumSq(W, j) % UnitsPerOne = 0
    /\ ColSumSq(W, j) \div UnitsPerOne = UnitsPerOne

\* the effective matrix of L is its base matrix: exactly in every column of
\* W0 whose norm is 0 or at least 1e-8, within 1e-8 in the others
EqualsBase(h, L) ==
    LET W == W0Of(h, L)
        E == EffectiveEmbeddings(h, L)
    IN  \A i \in Rows(W), j \in Cols(W) :
            IF ColSumSq(W, j) = 0 \/ ColSumSq(W, j) >= EpsUnits * EpsUnits
            THEN E[i][j] = RFrac(W[i][j], 1, 1)
            ELSE WithinFloor(E[i][j], RFrac(W[i][j], 1, 1))

\* right after build() with the default magnitude initializer the effective
\* matrix is W0 with each column divided by its floored norm, and differs
\* from W0 in every column whose norm is not 1 (zero columns included when
\* zeroToo, left out otherwise)
FreshBuild(zeroToo) ==
    (res.op = "build" /\ layers[res.layer].magnitude_initializer = "ones") =>
        LET L == layers[res.layer]
            W == W0Of(heap, L)
            E == EffectiveEmbeddings(heap, L)
        IN  \A j \in Cols(W) :
                LET floored == IF ColSumSq(W, j) < EpsUnits * EpsUnits THEN REps
                               ELSE RNorm(1, ColSumSq(W, j), 1, 1)
                IN  /\ \A i \in Rows(W) :
                           E[i][j] = RDiv(RFrac(W[i][j], 1, 1), floored)
                    /\ (~NormIsOne(W, j) /\ (zeroToo \/ ColSumSq(W, j) # 0)) =>
                           \E i \in Rows(W) : E[i][j] # RFrac(W[i][j], 1, 1)

\* a step of the layer's own operations that leaves a built layer with a
\* non-zero base matrix and an effective matrix equal to it, where it was
\* not so before, is a successful conversion or load: no other step that
\* builds a layer or changes a tensor ends in such a state
OnlyConversionOrLoad ==
    \A l \in LayerIds :
        (/\ res'.op # "assign"
         /\ ~(res'.op \in {"convert", "load"} /\ res'.err = "")
         /\ layers'[l].kind = "embedding"
         /\ layers'[l].built
         /\ ~(layers[l].built /\ heap' = heap)) =>
            ~(/\ W0Of(heap', layers'[l])
                     # Zeros(layers'[l].input_dim, layers'[l].output_dim)
              /\ EqualsBase(heap', layers'[l]))

HoldsFirst(g) ==
    LET F == layers[1]
        G == layers[g]
    IN  /\ G.built
        /\ Len(W0Of(heap, G)) = G.input_dim
        /\ Prefix(W0Of(heap, G), F.input_dim) = W0Of(heap, F)
        /\ Prefix(AOf(heap, G), F.input_dim) = AOf(heap, F)
        /\ BOf(heap, G) = BOf(heap, F)
        /\ MOf(heap, G) = MOf(heap, F)

\* C29: after any sequence of expand_vocabulary calls from a built layer of
\* R rows, each on the result of the one before and to a strictly larger
\* size, every layer of the sequence, the last included, has the first
\* layer's W0 and A as its first R rows and the first layer's B and m, and
\* no call changes a layer that exists
C29_RepeatedGrowthPreservesPrefix ==
    /\ [](\A g \in Existing \ {1} :
              /\ HoldsFirst(g)
              /\ layers[g].input_dim > layers[g - 1].input_dim)
    /\ [][res'.op = "expand" => \A k \in Existing : Untouched(k)]_vars

\* the third layer of a sequence, grown by passed-in rows from the second,
\* the first being loaded and trained
C29_Witness ==
    /\ Expanded
    /\ res.layer = 2
    /\ res.out = 3
    /\ res.args.new_token_embeddings # Null
    /\ LET F == layers[1]
       IN  /\ BOf(heap, F) # Zeros(F.rank, F.output_dim)
           /\ MOf(heap, F) # MagnitudeInit("ones", F.output_dim)
           /\ W0Of(heap, F) # Zeros(F.input_dim, F.output_dim)
           /\ layers[3].input_dim > layers[2].input_dim

\* after a growth from L to G: every column norm of combined has not
\* decreased, no effective entry of an old row has grown in absolute value,
\* and in each column above the floor (and, unless zeroToo, with a non-zero
\* magnitude) the old rows keep their absolute values exactly when the new
\* rows of combined are zero in that column
GrowthShrinks(zeroToo) ==
    Expanded =>
        LET L == layers[res.layer]
            G == layers[res.out]
            EL == EffectiveEmbeddings(heap, L)
            EG == EffectiveEmbeddings(heap, G)
        IN  \A j \in 1..L.output_dim :
                /\ CombinedOf(G).den = CombinedOf(L).den
                /\ ColSumSq(CombinedOf(G).mat, j) >= ColSumSq(CombinedOf(L).mat, j)
                /\ \A i \in 1..L.input_dim : RAbsLeq(EG[i][j], EL[i][j])
                /\ (AboveFloor(L, j) /\ (zeroToo \/ MOf(heap, L)[j] # RZero)) =>
                       ((\A i \in 1..L.input_dim : RAbs(EG[i][j]) = RAbs(EL[i][j]))
                            <=> NewRowsZero(L, G, j))

\* C30 as stated: for a layer grown from R to R' rows every column norm of
\* combined in the grown layer is >= the original's, so every effective
\* entry of the first R rows is in absolute value <= the original's, with
\* equality in column j exactly when the new rows of combined are all zero
\* in column j, for the columns whose original norm exceeds 1e-8
C30_GrowthOnlyShrinks == GrowthShrinks(TRUE)

\* C30, amended: the same, the equality being characterised for the
\* columns whose original norm exceeds 1e-8 and whose magnitude is not zero
C30_GrowthOnlyShrinksNonZeroMagnitude == GrowthShrinks(FALSE)

\* a growth of a trained layer with a column above the floor that the new
\* rows leave alone and one above the floor that they shrink strictly
C30_Witness ==
    /\ Expanded
    /\ LET L == layers[res.layer]
           G == layers[res.out]
           EL == EffectiveEmbeddings(heap, L)
           EG == EffectiveEmbeddings(heap, G)
       IN  /\ BOf(heap, L) # Zeros(L.rank, L.output_dim)
           /\ \E j \in 1..L.output_dim :
                  /\ AboveFloor(L, j)
                  /\ MOf(heap, L)[j] # RZero
                  /\ NewRowsZero(L, G, j)
           /\ \E j \in 1..L.output_dim :
                  /\ AboveFloor(L, j)
                  /\ ~NewRowsZero(L, G, j)
                  /\ \E i \in 1..L.input_dim :
                         /\ EL[i][j] # RZero
                         /\ RAbs(EG[i][j]) # RAbs(EL[i][j])
                         /\ RAbsLeq(EG[i][j], EL[i][j])

=============================================================================
